---- MODULE Spec2Model ----
(***************************************************************************)
(* Model of PIDNet/tools/train_DACS.py: the training driver main().        *)
(* One behaviour is a sequence of process runs of main() that share the    *)
(* output directory (checkpoint.pth.tar, best.pt, final_state.pt).  A run  *)
(* can be killed between any two steps and a new run started afterwards.   *)
(*                                                                         *)
(* train() and validate() are external: train() is a call that returns,    *)
(* validate() returns an arbitrary mean_IoU in 0..MaxIoU.                  *)
(*                                                                         *)
(* Learning rates are rationals.  A rate is kept as the record             *)
(*   [warm |-> n, cos |-> k]                                               *)
(* that stands for the value n / warmup_epochs after k multiplicative      *)
(* cosine-annealing updates (CosineAnnealingLR.step in its chainable       *)
(* form), so that base_lr * (epoch + 1) / warmup_epochs is exact.          *)
(***************************************************************************)
EXTENDS Integers, Sequences, FiniteSets

\* ---------------------------------------------------------------- bounds
MaxRuns == 2          \* process runs of main() in one behaviour
MaxIoU == 1           \* validate() returns mean_IoU in 0..MaxIoU
MaxEndEpoch == 6      \* config.TRAIN.END_EPOCH ranges up to this
MaxKillEpoch == 5     \* a process is killed only while epoch <= MaxKillEpoch

\* ------------------------------------------------------ program constants
warmup_epochs == 5
CamvidEnd == 121
ValTail == 100
ValPeriod == 5

\* A Python name that is not bound yet is the empty tuple; a bound one is <<value>>.
Undefined == <<>>
Bound(v) == <<v>>
Value(b) == b[1]
\* A file that does not exist is the empty tuple; one that does is <<content>>.
NoFile == <<>>

Optimizers == {"sgd", "adam", "rmsprop"}
EndEpochs == (warmup_epochs + 1)..MaxEndEpoch
\* config.TRAIN.LR: positive; every rate of the model is linear in it
LRValues == {1, 2}

CkptFile == "checkpoint.pth.tar"
BestFile == "best.pt"
FinalFile == "final_state.pt"

VARIABLES
  config,        \* the config tree: END_EPOCH, camvid, SCHEDULER, LR, RESUME, OPTIMIZER
  gpus_match,    \* torch.cuda.device_count() = len(config.GPUS)
  pc,            \* position of main()
  epoch,         \* loop variable
  last_epoch,
  flag_rm,
  best_mIoU,
  mean_IoU,      \* Undefined until validate() has assigned it
  param_groups,  \* optimizer.param_groups, the lr of each group
  scheduler,     \* Undefined (never constructed), or the number of step() calls made on it
  current_lr,    \* Undefined until assigned in the loop
  files,         \* the output directory
  run,           \* history of the current process run: its number, whether the model
                 \* was built, train() calls, whether validate() was called, the
                 \* files written, the highest mean_IoU validate() returned
  iter,          \* history of the current loop iteration: lr updates, calls of
                 \* train() and validate(), file writes, the base_lr train() got
  hist           \* history across runs: the last epoch given to train(), the
                 \* highest epoch whose checkpoint was written, and whether a
                 \* run without RESUME was started over an existing checkpoint

vars == <<config, gpus_match, pc, epoch, last_epoch, flag_rm, best_mIoU, mean_IoU,
          param_groups, scheduler, current_lr, files, run, iter, hist>>

\* ---------------------------------------------------------------- helpers
Max(a, b) == IF a >= b THEN a ELSE b

\* line 204
real_end == IF config.camvid THEN CamvidEnd ELSE config.END_EPOCH

\* line 207: config.TRAIN.LR as a rate
base_lr == config.LR * warmup_epochs

Rate(n) == [warm |-> n, cos |-> 0]

\* the warm-up counts epochs from 0
WarmupLrFromZero(e) == Rate((base_lr * e) \div warmup_epochs)

\* lines 42-48: the rate the warm-up computes, base_lr * (epoch + 1) / warmup_epochs
WarmupLr(e) == Rate((base_lr * (e + 1)) \div warmup_epochs)

\* lines 45-46: every param group gets the warm-up rate
adjust_learning_rate(groups, e) == [g \in DOMAIN groups |-> WarmupLr(e)]

\* line 220: CosineAnnealingLR.step() updates the rate of every group once
SchedulerStep(groups) == [g \in DOMAIN groups |-> [groups[g] EXCEPT !.cos = @ + 1]]

\* the resume flag is ignored
ShouldValidateNoFlag(flag, e) ==
  \/ (e % ValPeriod = 0 /\ e < real_end - ValTail)
  \/ e >= real_end - ValTail

\* line 242: the condition under which validate() is called
ShouldValidate(flag, e) ==
  \/ flag = TRUE
  \/ (e % ValPeriod = 0 /\ e < real_end - ValTail)
  \/ e >= real_end - ValTail

\* the comparison is not strict
is_best_or_equal == Value(mean_IoU) >= best_mIoU

\* line 267
is_best == Value(mean_IoU) > best_mIoU

\* the epoch just trained is recorded instead of the next one
CheckpointDictSameEpoch == [epoch |-> epoch, best_mIoU |-> best_mIoU, optimizer |-> param_groups]

\* lines 257-264: the dictionary saved as checkpoint.pth.tar
CheckpointDict == [epoch |-> epoch + 1, best_mIoU |-> best_mIoU, optimizer |-> param_groups]

\* the adam branch is missing
OptimizerOnlySgd(o) == o = "sgd"

\* lines 168-182: the optimizers the script builds
OptimizerSupported(o) == o \in {"sgd", "adam"}

\* the check is missing
GpuNeverMismatch == FALSE

\* line 69
GpuMismatch == ~gpus_match

\* the flag starts cleared
InitialFlagCleared == FALSE

\* line 188
InitialFlag == config.RESUME

\* line 217
InWarmup(e) == e < warmup_epochs

\* the range includes real_end
LoopContinuesInclusive == epoch <= real_end

\* line 214: range(last_epoch, real_end) has a next element
LoopContinues == epoch < real_end

NewIter == [lrWarm |-> 0, lrCos |-> 0, train |-> 0, validate |-> 0, ckpt |-> 0,
            best |-> 0, arg |-> Undefined]

NewRun(n) == [n |-> n, modelBuilt |-> FALSE, epochs |-> 0, validated |-> FALSE,
              written |-> {}, finalWrites |-> 0, writerClosed |-> FALSE, maxSeen |-> 0]

Running == {"start", "build", "optimizer", "resume", "loop", "lr", "train",
            "validate", "save", "best", "final"}
Stopped == {"idle", "killed", "done", "exit", "ValueError", "NameError"}

\* ------------------------------------------------------------------- Init
Init ==
  /\ config \in [END_EPOCH : EndEpochs, camvid : BOOLEAN, SCHEDULER : BOOLEAN,
                 LR : LRValues, RESUME : {FALSE}, OPTIMIZER : {"sgd"}]
  /\ gpus_match = TRUE
  /\ pc = "idle"
  /\ epoch = 0
  /\ last_epoch = 0
  /\ flag_rm = FALSE
  /\ best_mIoU = 0
  /\ mean_IoU = Undefined
  /\ param_groups = <<>>
  /\ scheduler = Undefined
  /\ current_lr = Undefined
  /\ files = [f \in {CkptFile, BestFile, FinalFile} |-> NoFile]
  /\ run = NewRun(0)
  /\ iter = NewIter
  /\ hist = [lastTrained |-> -1, maxCkpt |-> -1, freshOver |-> FALSE]

\* ---------------------------------------------------------------- actions
\* A process is launched: lines 50-67 (arguments, logger, summary writer).
StartRun ==
  /\ pc \in Stopped
  /\ run.n < MaxRuns
  /\ \E r \in BOOLEAN, o \in Optimizers, g \in BOOLEAN :
       /\ config' = [config EXCEPT !.RESUME = r, !.OPTIMIZER = o]
       /\ gpus_match' = g
       /\ hist' = [hist EXCEPT !.freshOver = @ \/ (~r /\ files[CkptFile] # NoFile)]
  /\ pc' = "start"
  /\ epoch' = 0
  /\ last_epoch' = 0
  /\ flag_rm' = FALSE
  /\ best_mIoU' = 0
  /\ mean_IoU' = Undefined
  /\ param_groups' = <<>>
  /\ scheduler' = Undefined
  /\ current_lr' = Undefined
  /\ run' = NewRun(run.n + 1)
  /\ iter' = NewIter
  /\ UNCHANGED files

\* lines 68-71
GpuCheck ==
  /\ pc = "start"
  /\ pc' = IF GpuMismatch THEN "exit" ELSE "build"
  /\ UNCHANGED <<config, gpus_match, epoch, last_epoch, flag_rm, best_mIoU, mean_IoU,
                 param_groups, scheduler, current_lr, files, run, iter, hist>>

\* lines 73-164: model, datasets, loaders, criteria
BuildModel ==
  /\ pc = "build"
  /\ run' = [run EXCEPT !.modelBuilt = TRUE]
  /\ pc' = "optimizer"
  /\ UNCHANGED <<config, gpus_match, epoch, last_epoch, flag_rm, best_mIoU, mean_IoU,
                 param_groups, scheduler, current_lr, files, iter, hist>>

\* lines 167-182
MakeOptimizer ==
  /\ pc = "optimizer"
  /\ IF OptimizerSupported(config.OPTIMIZER)
       THEN /\ param_groups' = <<Rate(base_lr)>>
            /\ pc' = "resume"
       ELSE /\ pc' = "ValueError"
            /\ UNCHANGED param_groups
  /\ UNCHANGED <<config, gpus_match, epoch, last_epoch, flag_rm, best_mIoU, mean_IoU,
                 scheduler, current_lr, files, run, iter, hist>>

\* lines 186-212: defaults, checkpoint load, scheduler construction
Resume ==
  /\ pc = "resume"
  /\ flag_rm' = InitialFlag
  /\ IF config.RESUME /\ files[CkptFile] # NoFile
       THEN /\ best_mIoU' = Value(files[CkptFile]).best_mIoU
            /\ last_epoch' = Value(files[CkptFile]).epoch
            /\ param_groups' = Value(files[CkptFile]).optimizer
       ELSE /\ best_mIoU' = 0
            /\ last_epoch' = 0
            /\ UNCHANGED param_groups
  /\ scheduler' = IF config.SCHEDULER THEN Bound(0) ELSE Undefined
  /\ epoch' = last_epoch'
  /\ pc' = "loop"
  /\ UNCHANGED <<config, gpus_match, mean_IoU, current_lr, files, run, iter, hist>>

\* line 214: the loop header
LoopHead ==
  /\ pc = "loop"
  /\ IF LoopContinues
       THEN /\ pc' = "lr"
            /\ iter' = NewIter
       ELSE /\ pc' = "final"
            /\ UNCHANGED iter
  /\ UNCHANGED <<config, gpus_match, epoch, last_epoch, flag_rm, best_mIoU, mean_IoU,
                 param_groups, scheduler, current_lr, files, run, hist>>

\* lines 216-223
LrUpdate ==
  /\ pc = "lr"
  /\ IF config.SCHEDULER
       THEN /\ IF InWarmup(epoch)
                 THEN /\ param_groups' = adjust_learning_rate(param_groups, epoch)
                      /\ iter' = [iter EXCEPT !.lrWarm = @ + 1]
                      /\ UNCHANGED scheduler
                 ELSE /\ param_groups' = SchedulerStep(param_groups)
                      /\ scheduler' = Bound(Value(scheduler) + 1)
                      /\ iter' = [iter EXCEPT !.lrCos = @ + 1]
            /\ current_lr' = Bound(param_groups'[1])
       ELSE /\ current_lr' = Bound(Rate(base_lr))
            /\ UNCHANGED <<param_groups, scheduler, iter>>
  /\ pc' = "train"
  /\ UNCHANGED <<config, gpus_match, epoch, last_epoch, flag_rm, best_mIoU, mean_IoU,
                 files, run, hist>>

\* lines 227-240
Train ==
  /\ pc = "train"
  /\ iter' = [iter EXCEPT !.train = @ + 1, !.arg = current_lr]
  /\ run' = [run EXCEPT !.epochs = @ + 1]
  /\ hist' = [hist EXCEPT !.lastTrained = epoch]
  /\ pc' = "validate"
  /\ UNCHANGED <<config, gpus_match, epoch, last_epoch, flag_rm, best_mIoU, mean_IoU,
                 param_groups, scheduler, current_lr, files>>

\* lines 242-246
Validate ==
  /\ pc = "validate"
  /\ IF ShouldValidate(flag_rm, epoch)
       THEN \E m \in 0..MaxIoU :
              /\ mean_IoU' = Bound(m)
              /\ iter' = [iter EXCEPT !.validate = @ + 1]
              /\ run' = [run EXCEPT !.validated = TRUE, !.maxSeen = Max(@, m)]
       ELSE UNCHANGED <<mean_IoU, iter, run>>
  /\ flag_rm' = IF flag_rm = TRUE THEN FALSE ELSE flag_rm
  /\ pc' = "save"
  /\ UNCHANGED <<config, gpus_match, epoch, last_epoch, best_mIoU, param_groups,
                 scheduler, current_lr, files, hist>>

\* lines 255-264
SaveCheckpoint ==
  /\ pc = "save"
  /\ files' = [files EXCEPT ![CkptFile] = Bound(CheckpointDict)]
  /\ iter' = [iter EXCEPT !.ckpt = @ + 1]
  /\ run' = [run EXCEPT !.written = @ \cup {CkptFile}]
  /\ hist' = [hist EXCEPT !.maxCkpt = Max(@, epoch)]
  /\ pc' = "best"
  /\ UNCHANGED <<config, gpus_match, epoch, last_epoch, flag_rm, best_mIoU, mean_IoU,
                 param_groups, scheduler, current_lr>>

\* lines 266-276, and the step of the loop variable
UpdateBest ==
  /\ pc = "best"
  /\ IF mean_IoU = Undefined
       THEN /\ pc' = "NameError"
            /\ UNCHANGED <<best_mIoU, files, iter, run, epoch>>
       ELSE /\ IF is_best
                 THEN /\ best_mIoU' = Value(mean_IoU)
                      /\ files' = [files EXCEPT ![BestFile] = mean_IoU]
                      /\ iter' = [iter EXCEPT !.best = @ + 1]
                      /\ run' = [run EXCEPT !.written = @ \cup {BestFile}]
                 ELSE UNCHANGED <<best_mIoU, files, iter, run>>
            /\ epoch' = epoch + 1
            /\ pc' = "loop"
  /\ UNCHANGED <<config, gpus_match, last_epoch, flag_rm, mean_IoU, param_groups,
                 scheduler, current_lr, hist>>

\* lines 278-283
Finish ==
  /\ pc = "final"
  /\ files' = [files EXCEPT ![FinalFile] = Bound("state_dict")]
  /\ run' = [run EXCEPT !.written = @ \cup {FinalFile}, !.finalWrites = @ + 1,
                        !.writerClosed = TRUE]
  /\ pc' = "done"
  /\ UNCHANGED <<config, gpus_match, epoch, last_epoch, flag_rm, best_mIoU, mean_IoU,
                 param_groups, scheduler, current_lr, iter, hist>>

\* The process is killed between two steps (the model kills it only in the setup or
\* in one of the epochs 0..MaxKillEpoch).
Interrupt ==
  /\ pc \in Running
  /\ epoch <= MaxKillEpoch
  /\ pc' = "killed"
  /\ UNCHANGED <<config, gpus_match, epoch, last_epoch, flag_rm, best_mIoU, mean_IoU,
                 param_groups, scheduler, current_lr, files, run, iter, hist>>

Step ==
  \/ GpuCheck
  \/ BuildModel
  \/ MakeOptimizer
  \/ Resume
  \/ LoopHead
  \/ LrUpdate
  \/ Train
  \/ Validate
  \/ SaveCheckpoint
  \/ UpdateBest
  \/ Finish

Next ==
  \/ StartRun
  \/ Step
  \/ Interrupt

Spec == Init /\ [][Next]_vars

\* A process that is not killed keeps executing.
FairSpec == Spec /\ WF_vars(Step)

\* Under FairSpec every run ends: it returns, raises or is killed.
RunEnds == (pc \in Running) ~> (pc \in Stopped)

\* ----------------------------------------------------------------- claims
InLoopBody == pc \in {"lr", "train", "validate", "save", "best"}
AfterTrain == pc \in {"validate", "save", "best"}
AfterValidate == pc \in {"save", "best"}

\* C1: when the GPU count does not match, the run goes from its start straight to
\* "return 0": the model is never built, train() and validate() are never called and
\* none of checkpoint.pth.tar, best.pt, final_state.pt is written by that run.
C1_MismatchReturnsEarly ==
  (run.n > 0 /\ ~gpus_match) =>
     /\ pc \in {"start", "exit", "killed"}
     /\ ~run.modelBuilt
     /\ run.epochs = 0
     /\ ~run.validated
     /\ run.written = {}

C1_Witness == pc = "exit" /\ ~gpus_match /\ files[CkptFile] # NoFile

\* C2 as stated: with a matching GPU count the script never returns or raises before
\* the epoch loop, whatever config.TRAIN.OPTIMIZER is.
C2_OnlyGpuCheckStops == gpus_match => pc \notin {"exit", "ValueError"}

\* C2 amended: the script returns early exactly on a GPU-count mismatch and raises
\* ValueError exactly when the count matches and the optimizer is neither 'sgd' nor
\* 'adam' (after the model is built, before any epoch); with a matching count and
\* 'sgd' or 'adam' it is never stopped by the script and every step up to the loop
\* can be taken.
C2_GpuAndOptimizerChecks ==
  /\ pc = "exit" => ~gpus_match
  /\ pc = "ValueError" =>
       /\ gpus_match
       /\ config.OPTIMIZER \notin {"sgd", "adam"}
       /\ run.modelBuilt
       /\ run.epochs = 0
  /\ (run.n > 0 /\ gpus_match /\ config.OPTIMIZER \in {"sgd", "adam"}) =>
       /\ pc \notin {"exit", "ValueError"}
       /\ pc \in {"start", "build", "optimizer", "resume"} => ENABLED Step

C2_Witness == pc = "lr" /\ gpus_match /\ config.OPTIMIZER = "adam"

\* C3: the checkpoint written in epoch e records e + 1; the loop starts at the
\* recorded epoch when RESUME is set and the file exists, else at 0; and as long as
\* no run without RESUME was started over an existing checkpoint, the epochs given
\* to train() are 0 first and then each the previous one again or its successor,
\* and never an epoch whose checkpoint was already written.
C3_EpochProgress ==
  [][ /\ (pc = "save" /\ pc' = "best") => Value(files'[CkptFile]).epoch = epoch + 1
      /\ (pc = "resume" /\ pc' = "loop") =>
            /\ epoch' = last_epoch'
            /\ last_epoch' = IF config.RESUME /\ files[CkptFile] # NoFile
                               THEN Value(files[CkptFile]).epoch
                               ELSE 0
      /\ (pc = "train" /\ pc' = "validate" /\ ~hist.freshOver) =>
            /\ epoch \in {hist.lastTrained, hist.lastTrained + 1}
            /\ epoch >= 0
            /\ epoch > hist.maxCkpt
    ]_vars

C3_Witness ==
  /\ pc = "validate"
  /\ run.n > 1
  /\ ~hist.freshOver
  /\ last_epoch > 0
  /\ epoch > last_epoch
  /\ hist.lastTrained = epoch

\* C4: in every loop iteration train() is called once, then validate() is called
\* at most once, and exactly when the epoch is the first one of a run started with
\* RESUME set, or epoch % 5 = 0 and epoch < real_end - 100, or
\* epoch >= real_end - 100; checkpoint.pth.tar is then written exactly once whether
\* or not validate() ran; the resume flag is set only until the first validation
\* step of the run.
C4_PeriodicValidation ==
  /\ InLoopBody => iter.train = (IF AfterTrain THEN 1 ELSE 0)
  /\ (InLoopBody /\ ~AfterValidate) => iter.validate = 0
  /\ AfterValidate =>
       iter.validate = (IF \/ (config.RESUME /\ epoch = last_epoch)
                           \/ (epoch % 5 = 0 /\ epoch < real_end - 100)
                           \/ epoch >= real_end - 100
                          THEN 1 ELSE 0)
  /\ InLoopBody => iter.ckpt = (IF pc = "best" THEN 1 ELSE 0)
  /\ (pc = "loop" /\ epoch > last_epoch) =>
       iter.train = 1 /\ iter.validate \in {0, 1} /\ iter.ckpt = 1
  /\ (InLoopBody /\ ~AfterValidate) => flag_rm = (config.RESUME /\ epoch = last_epoch)
  /\ (AfterValidate \/ (pc = "loop" /\ epoch > last_epoch)) => flag_rm = FALSE

C4_Witness ==
  /\ pc = "best"
  /\ iter.validate = 0
  /\ iter.ckpt = 1
  /\ config.RESUME
  /\ last_epoch > 0

\* C5: with the scheduler enabled each iteration makes exactly one learning-rate
\* update before train(): for epoch < 5 the warm-up sets every param group to
\* base_lr * (epoch + 1) / 5 (above the previous epoch's rate, base_lr at epoch 4)
\* and the cosine scheduler is not stepped; for epoch >= 5 the scheduler is stepped
\* once and the warm-up is not applied; train() gets the rate of param group 0.
\* With the scheduler disabled no update is made and train() gets config.TRAIN.LR.
C5_LrSchedule ==
  (pc = "train" \/ AfterTrain) =>
     /\ config.SCHEDULER =>
          /\ iter.lrWarm + iter.lrCos = 1
          /\ epoch < 5 =>
               /\ iter.lrWarm = 1
               /\ \A g \in DOMAIN param_groups :
                    /\ param_groups[g].cos = 0
                    /\ param_groups[g].warm * 5 = (config.LR * 5) * (epoch + 1)
                    /\ param_groups[g].warm > config.LR * epoch
                    /\ epoch = 4 => param_groups[g].warm = config.LR * 5
          /\ epoch >= 5 => iter.lrCos = 1
          /\ current_lr = Bound(param_groups[1])
     /\ ~config.SCHEDULER =>
          /\ iter.lrWarm = 0 /\ iter.lrCos = 0
          /\ scheduler = Undefined
          /\ current_lr = Bound([warm |-> config.LR * 5, cos |-> 0])
     /\ AfterTrain => iter.arg = current_lr
     /\ DOMAIN param_groups # {}

C5_Witness ==
  /\ pc = "validate"
  /\ config.SCHEDULER
  /\ epoch = 5
  /\ last_epoch = 0
  /\ iter.arg = Bound([warm |-> config.LR * 5, cos |-> 1])

\* C6 as stated: the position of the cosine schedule depends only on the epoch:
\* when train() is called for an epoch e >= 5 with the scheduler enabled, the
\* scheduler in use has been stepped e - 4 times, in a first run and in a resumed
\* run alike.
C6_SchedulePosition ==
  (AfterTrain /\ config.SCHEDULER /\ epoch >= 5) => Value(scheduler) = epoch - 4

\* C6, its bound: the number of step() calls never exceeds T_max = END_EPOCH - 5.
\* (Not a claim formula of its own; violated when real_end = 121 > END_EPOCH.)
C6_WithinTmax ==
  (AfterTrain /\ config.SCHEDULER /\ epoch >= 5) =>
     Value(scheduler) <= config.END_EPOCH - warmup_epochs

\* C7: a run that is not killed terminates (every step lowers a non-negative
\* variant and a running process can always step); when it is done it has trained
\* exactly max(0, real_end - last_epoch) epochs, has written final_state.pt exactly
\* once, as its last write, and has closed the summary writer; a run resumed at
\* last_epoch >= real_end makes no train() or validate() call and writes no
\* checkpoint, yet writes final_state.pt.
PcRank ==
  CASE pc = "start" -> 12
    [] pc = "build" -> 11
    [] pc = "optimizer" -> 10
    [] pc = "resume" -> 9
    [] pc = "loop" -> 8
    [] pc = "lr" -> 7
    [] pc = "train" -> 6
    [] pc = "validate" -> 5
    [] pc = "save" -> 4
    [] pc = "best" -> 3
    [] pc = "final" -> 1
    [] OTHER -> 0

Variant == PcRank + 6 * Max(0, real_end - epoch)

C7_Terminates ==
  /\ [][Step => (Variant' < Variant /\ Variant' >= 0)]_vars
  /\ [](pc \in Running => ENABLED Step)
  /\ [](pc = "done" =>
          /\ run.epochs = Max(0, real_end - last_epoch)
          /\ run.finalWrites = 1
          /\ files[FinalFile] # NoFile
          /\ run.writerClosed
          /\ last_epoch >= real_end =>
               /\ run.epochs = 0
               /\ ~run.validated
               /\ run.written = {FinalFile})
  /\ [](pc # "done" => (run.finalWrites = 0 /\ ~run.writerClosed))
  /\ [][files'[FinalFile] # files[FinalFile] => pc' = "done"]_vars

C7_Witness ==
  /\ pc = "done"
  /\ config.RESUME
  /\ last_epoch >= real_end
  /\ files[CkptFile] # NoFile

\* C8: whenever the validation results are read (the best-model comparison and
\* the log message), validate() has assigned them earlier in the same run, because
\* the first epoch of every run is validated; the read never raises NameError.
C8_ResultsDefined ==
  /\ pc # "NameError"
  /\ pc = "best" => (mean_IoU # Undefined /\ run.validated)
  /\ (AfterValidate /\ epoch = last_epoch) => iter.validate = 1

C8_Witness ==
  /\ pc = "best"
  /\ config.RESUME
  /\ epoch = last_epoch
  /\ epoch % 5 # 0
  /\ epoch < real_end - 100

\* C9: within a run best_mIoU never decreases; after each epoch's comparison it is
\* at least every mean_IoU validate() returned in the run; best.pt is written only
\* in an iteration in which validate() ran and returned more than best_mIoU, and
\* then holds the model of that mean_IoU.
C9_BestMonotone ==
  /\ [][run'.n = run.n => best_mIoU' >= best_mIoU]_vars
  /\ []((pc = "loop" /\ epoch > last_epoch) => best_mIoU >= run.maxSeen)
  /\ [][(pc = "best" /\ (files'[BestFile] # files[BestFile] \/ iter'.best # iter.best)) =>
          /\ iter.validate = 1
          /\ Value(mean_IoU) > best_mIoU
          /\ files'[BestFile] = mean_IoU
          /\ best_mIoU' = Value(mean_IoU)]_vars
  /\ [](iter.best <= iter.validate)

C9_Witness ==
  /\ pc = "loop"
  /\ epoch > last_epoch
  /\ iter.validate = 0
  /\ iter.best = 0
  /\ files[BestFile] # NoFile
  /\ mean_IoU = Bound(best_mIoU)
  /\ best_mIoU > 0

\* C10 as stated: the best score in the checkpoint written in epoch e is the
\* highest mean_IoU validated up to and including e (stated for the first run,
\* where nothing was validated before it), and the best_mIoU a resumed run
\* restores is the score of the model in best.pt.
C10_PersistedBest ==
  /\ (run.n = 1 /\ pc = "loop" /\ epoch > last_epoch) =>
        Value(files[CkptFile]).best_mIoU = run.maxSeen
  /\ (pc = "loop" /\ epoch = last_epoch /\ config.RESUME /\ ~hist.freshOver
        /\ files[CkptFile] # NoFile /\ files[BestFile] # NoFile) =>
        best_mIoU = Value(files[BestFile])

====
